---- MODULE Spec2Model ----
(***************************************************************************)
(* LSAT authenticator (auth/authenticator.go): the token codec             *)
(* (FromHeader, SetHeader) and the two request flows of LsatAuthenticator  *)
(* (Accept, FreshChallengeHeader).                                         *)
(*                                                                         *)
(* A header value is a sequence of one-character strings; a byte string is *)
(* a sequence of numbers in 0..255.  An http.Header is a function from the *)
(* field names to the list of values of the field (map[string][]string);   *)
(* an absent field has the empty list.                                     *)
(***************************************************************************)
EXTENDS Integers, Sequences, FiniteSets, TLC

\* --------------------------------------------------------------- text ---

\* Printable ASCII: AsciiLow holds the code points 32..95 and AsciiHigh the
\* code points 97..126 (the grave accent, 96, is left out of the alphabet).
\* Ord and Chr convert between a character and its byte, as []byte(s) and
\* string(b) do.
AsciiLow ==
    << " ", "!", "\"", "#", "$", "%", "&", "'", "(", ")", "*", "+", ",", "-",
       ".", "/", "0", "1", "2", "3", "4", "5", "6", "7", "8", "9", ":", ";",
       "<", "=", ">", "?", "@", "A", "B", "C", "D", "E", "F", "G", "H", "I",
       "J", "K", "L", "M", "N", "O", "P", "Q", "R", "S", "T", "U", "V", "W",
       "X", "Y", "Z", "[", "\\", "]", "^", "_" >>

AsciiHigh ==
    << "a", "b", "c", "d", "e", "f", "g", "h", "i", "j", "k", "l", "m", "n",
       "o", "p", "q", "r", "s", "t", "u", "v", "w", "x", "y", "z", "{", "|",
       "}", "~" >>

Chars == { AsciiLow[i] : i \in 1..Len(AsciiLow) }
           \cup { AsciiHigh[i] : i \in 1..Len(AsciiHigh) }

IsPrintable(b) == (b >= 32 /\ b <= 95) \/ (b >= 97 /\ b <= 126)

Chr(b) == IF b <= 95 THEN AsciiLow[b - 31] ELSE AsciiHigh[b - 96]

OrdOf == [ c \in Chars |-> CHOOSE b \in 32..126 : IsPrintable(b) /\ Chr(b) = c ]

Ord(c) == OrdOf[c]

\* The constant "nil" stands for the nil error of Go.
nil == "nil"

\* ---------------------------------------------------------------- hex ---

LowerHexDigits == << "0", "1", "2", "3", "4", "5", "6", "7", "8", "9",
                     "a", "b", "c", "d", "e", "f" >>

UpperHexDigits == << "0", "1", "2", "3", "4", "5", "6", "7", "8", "9",
                     "A", "B", "C", "D", "E", "F" >>

\* The class [a-f0-9] of authRegex.
LowerHex == { LowerHexDigits[i] : i \in 1..16 }

\* The characters encoding/hex accepts when decoding: both cases.
AnyHex == LowerHex \cup { UpperHexDigits[i] : i \in 1..16 }

HexValOf ==
    [ c \in AnyHex |->
        (CHOOSE i \in 1..16 : LowerHexDigits[i] = c \/ UpperHexDigits[i] = c) - 1 ]

\* hex.EncodeToString: two lower-case digits per byte.
HexEncode(bs) ==
    [ i \in 1..(2 * Len(bs)) |->
        IF i % 2 = 1 THEN LowerHexDigits[(bs[(i + 1) \div 2] \div 16) + 1]
                     ELSE LowerHexDigits[(bs[i \div 2] % 16) + 1] ]

\* hex.DecodeString: an odd length or a character outside [0-9a-fA-F] is an
\* error.
HexDecode(s) ==
    IF \E i \in 1..Len(s) : s[i] \notin AnyHex
      THEN [err |-> "hex: invalid byte", bytes |-> << >>]
    ELSE IF Len(s) % 2 = 1
      THEN [err |-> "hex: odd length", bytes |-> << >>]
    ELSE [err |-> nil,
          bytes |-> [ i \in 1..(Len(s) \div 2) |->
                        16 * HexValOf[s[2 * i - 1]] + HexValOf[s[2 * i]] ]]

\* ------------------------------------------------------------- base64 ---

B64Alphabet ==
    << "A", "B", "C", "D", "E", "F", "G", "H", "I", "J", "K", "L", "M", "N",
       "O", "P", "Q", "R", "S", "T", "U", "V", "W", "X", "Y", "Z", "a", "b",
       "c", "d", "e", "f", "g", "h", "i", "j", "k", "l", "m", "n", "o", "p",
       "q", "r", "s", "t", "u", "v", "w", "x", "y", "z", "0", "1", "2", "3",
       "4", "5", "6", "7", "8", "9", "+", "/" >>

B64Chars == { B64Alphabet[i] : i \in 1..64 }

B64ValOf == [ c \in B64Chars |-> (CHOOSE i \in 1..64 : B64Alphabet[i] = c) - 1 ]

\* The 24-bit group number k (from 0) of bs, missing bytes read as zero.
B64Group(bs, k) ==
    LET b(j) == IF 3 * k + j <= Len(bs) THEN bs[3 * k + j] ELSE 0
    IN  65536 * b(1) + 256 * b(2) + b(3)

\* The j-th (1..4) six-bit digit of a 24-bit group.
B64Sextet(v, j) ==
    CASE j = 1 -> v \div 262144
      [] j = 2 -> (v \div 4096) % 64
      [] j = 3 -> (v \div 64) % 64
      [] OTHER -> v % 64

\* base64.StdEncoding.EncodeToString: four characters per three bytes, the
\* last group padded with "=".
B64Encode(bs) ==
    LET n      == Len(bs)
        groups == (n + 2) \div 3
        pad    == (3 - (n % 3)) % 3
    IN  [ i \in 1..(4 * groups) |->
            IF i > 4 * groups - pad
              THEN "="
              ELSE B64Alphabet[
                     B64Sextet(B64Group(bs, (i - 1) \div 4), ((i - 1) % 4) + 1) + 1] ]

\* base64.StdEncoding.DecodeString: the length is a multiple of four, every
\* character is of the alphabet, and only the last group may end in one or
\* two "=".
B64Decode(s) ==
    LET n   == Len(s)
        pad == IF n >= 2 /\ s[n] = "=" /\ s[n - 1] = "=" THEN 2
               ELSE IF n >= 1 /\ s[n] = "=" THEN 1 ELSE 0
        v(k) == 262144 * B64ValOf[s[4 * k + 1]] + 4096 * B64ValOf[s[4 * k + 2]]
                + 64 * (IF 4 * k + 3 > n - pad THEN 0 ELSE B64ValOf[s[4 * k + 3]])
                + (IF 4 * k + 4 > n - pad THEN 0 ELSE B64ValOf[s[4 * k + 4]])
        byte(i) == LET w == v((i - 1) \div 3)
                   IN  CASE (i - 1) % 3 = 0 -> w \div 65536
                         [] (i - 1) % 3 = 1 -> (w \div 256) % 256
                         [] OTHER           -> w % 256
    IN  IF n % 4 # 0 \/ (\E i \in 1..(n - pad) : s[i] \notin B64Chars)
          THEN [err |-> "illegal base64 data", bytes |-> << >>]
          ELSE [err |-> nil,
                bytes |-> [ i \in 1..(3 * (n \div 4) - pad) |-> byte(i) ]]

\* ----------------------------------------------------------- macaroon ---

\* The largest field the binary form can carry (the packet size limit of the
\* macaroon library, scaled down).
MaxFieldLen == 80

\* A macaroon is [id, caveats, sig]: the identifier (token id, payment hash),
\* the caveats, each the bytes of "condition=value", and the signature.
\* NilMacaroon stands for the nil *macaroon.Macaroon returned beside an error.
NilMacaroon == [id |-> << >>, caveats |-> << >>, sig |-> -1]

\* One length-prefixed field of the binary form.
Field(data) == << Len(data) >> \o data

RECURSIVE FieldsOf(_)
FieldsOf(fs) == IF fs = << >> THEN << >> ELSE Field(Head(fs)) \o FieldsOf(Tail(fs))

\* mac.MarshalBinary: version, identifier, caveat count, caveats, signature.
\* A field longer than MaxFieldLen cannot be written: the error comes with no
\* bytes.
MarshalBinary(m) ==
    IF Len(m.id) > MaxFieldLen
       \/ \E i \in 1..Len(m.caveats) : Len(m.caveats[i]) > MaxFieldLen
      THEN [err |-> "failed to append packet", bytes |-> << >>]
      ELSE [err |-> nil,
            bytes |-> << 2 >> \o Field(m.id) \o << Len(m.caveats) >>
                      \o FieldsOf(m.caveats) \o << m.sig >>]

\* Reads n length-prefixed fields of bs from position pos on.
RECURSIVE ReadFields(_, _, _)
ReadFields(bs, pos, n) ==
    IF n = 0 THEN [ok |-> TRUE, fields |-> << >>, pos |-> pos]
    ELSE IF pos > Len(bs) \/ pos + bs[pos] > Len(bs)
      THEN [ok |-> FALSE, fields |-> << >>, pos |-> pos]
    ELSE LET rest == ReadFields(bs, pos + 1 + bs[pos], n - 1)
         IN  [ok |-> rest.ok,
              fields |-> << SubSeq(bs, pos + 1, pos + bs[pos]) >> \o rest.fields,
              pos |-> rest.pos]

\* mac.UnmarshalBinary: the inverse of MarshalBinary; a wrong version, a
\* truncated field or trailing bytes are errors.
UnmarshalBinary(bs) ==
    LET bad == [err |-> "unmarshal: invalid macaroon", mac |-> NilMacaroon]
    IN  IF Len(bs) < 1 \/ bs[1] # 2 THEN bad
        ELSE LET id == ReadFields(bs, 2, 1)
             IN  IF ~id.ok \/ id.pos > Len(bs) THEN bad
                 ELSE LET cs == ReadFields(bs, id.pos + 1, bs[id.pos])
                      IN  IF ~cs.ok \/ cs.pos # Len(bs) THEN bad
                          ELSE [err |-> nil,
                                mac |-> [id |-> id.fields[1],
                                         caveats |-> cs.fields,
                                         sig |-> bs[cs.pos]]]

\* The bytes of a text and the text of bytes.
BytesOf(s) == [ i \in 1..Len(s) |-> Ord(s[i]) ]

TextOf(bs) == [ i \in 1..Len(bs) |-> Chr(bs[i]) ]

\* macaroons.CondPreimage, the condition naming the preimage caveat.
CondPreimage == << "p", "r", "e", "i", "m", "a", "g", "e" >>

CondServices == << "s", "e", "r", "v", "i", "c", "e", "s" >>

\* The caveat "cond=value".
Caveat(cond, value) == BytesOf(cond \o << "=" >> \o value)

HasCond(cav, cond) ==
    /\ Len(cav) > Len(cond)
    /\ SubSeq(cav, 1, Len(cond) + 1) = BytesOf(cond \o << "=" >>)

\* macaroons.ExtractCaveat: the value of the first caveat of the condition,
\* or an error when the macaroon has none.
ExtractCaveat(m, cond) ==
    LET at == { i \in 1..Len(m.caveats) : HasCond(m.caveats[i], cond) }
    IN  IF at = { }
          THEN [err |-> "caveat not found", value |-> << >>]
          ELSE LET i == CHOOSE j \in at : \A k \in at : j <= k
               IN  [err |-> nil,
                    value |-> TextOf(SubSeq(m.caveats[i], Len(cond) + 2,
                                            Len(m.caveats[i])))]

\* ----------------------------------------------------------- preimage ---

\* The length of the preimage segment of authRegex, [a-f0-9]{64}.
PreimageHexLen == 64

\* lntypes.Preimage is PreimageSize bytes.
PreimageSize == PreimageHexLen \div 2

\* lntypes.Preimage{}, the zero value returned beside an error.
ZeroPreimage == [ i \in 1..PreimageSize |-> 0 ]

\* lntypes.MakePreimageFromStr: the text is hex and decodes to PreimageSize
\* bytes.
MakePreimageFromStr(s) ==
    LET d == HexDecode(s)
    IN  IF d.err # nil
          THEN [err |-> d.err, preimage |-> ZeroPreimage]
        ELSE IF Len(d.bytes) # PreimageSize
          THEN [err |-> "invalid preimage length", preimage |-> ZeroPreimage]
        ELSE [err |-> nil, preimage |-> d.bytes]

\* Preimage.String.
PreimageString(p) == HexEncode(p)

\* ------------------------------------------------------------- header ---

HeaderAuthorization == "Authorization"

HeaderMacaroonMD == "Grpc-Metadata-Macaroon"

HeaderMacaroon == "Macaroon"

HeaderWWWAuthenticate == "WWW-Authenticate"

HeaderFields == { HeaderAuthorization, HeaderMacaroonMD, HeaderMacaroon,
                  HeaderWWWAuthenticate }

\* http.Header.Get: the first value of the field, "" when it has none.
Get(h, k) == IF h[k] = << >> THEN << >> ELSE h[k][1]

\* http.Header.Set: the field holds exactly the value.
Set(h, k, v) == [h EXCEPT ![k] = << v >>]

\* The fixed text "LSAT " that opens authRegex and authFormat.
LsatPrefix == << "L", "S", "A", "T", " " >>

\* The positions where "LSAT " starts in s.
PrefixAt(s) ==
    { i \in 1..(Len(s) - 4) : SubSeq(s, i, i + 4) = LsatPrefix }

\* The positions of a ":" followed by PreimageHexLen characters of [a-f0-9].
ColonAt(s) ==
    { j \in 1..(Len(s) - PreimageHexLen) :
        /\ s[j] = ":"
        /\ \A k \in 1..PreimageHexLen : s[j + k] \in LowerHex }

\* authRegex, "LSAT (.*?):([a-f0-9]{64})", as regexp.FindStringSubmatch
\* applies it: the pattern is not anchored, so the match is the leftmost
\* "LSAT " that some ":" and 64 hex characters follow, the first group the
\* shortest text up to such a ":" (.*? is lazy), the second the 64 characters
\* after it.  matches is empty when nothing matches.
AuthRegexFind(s) ==
    LET cols   == ColonAt(s)
        starts == { i \in PrefixAt(s) : \E j \in cols : j >= i + 5 }
    IN  IF starts = { } THEN << >>
        ELSE LET i == CHOOSE a \in starts : \A b \in starts : a <= b
                 j == CHOOSE a \in cols :
                        a >= i + 5 /\ \A b \in cols : b >= i + 5 => a <= b
             IN  << SubSeq(s, i, j + PreimageHexLen),
                    SubSeq(s, i + 5, j - 1),
                    SubSeq(s, j + 1, j + PreimageHexLen) >>

\* authRegex.MatchString.
AuthRegexMatch(s) == AuthRegexFind(s) # << >>

\* -------------------------------------------------------------- codec ---

\* What FromHeader returns beside an error.
DecodeError(e) == [mac |-> NilMacaroon, preimage |-> ZeroPreimage, err |-> e]

\* Layout 1, the Authorization field: both values, separated by a colon.
FromAuthorization(authHeader) ==
    IF ~AuthRegexMatch(authHeader)
      THEN DecodeError("invalid auth header format")
    ELSE LET matches == AuthRegexFind(authHeader)
         IN  IF Len(matches) # 3
               THEN DecodeError("invalid auth header format")
             ELSE LET macBytes == B64Decode(matches[2])
                      mac      == UnmarshalBinary(macBytes.bytes)
                      preimage == MakePreimageFromStr(matches[3])
                  IN  IF macBytes.err # nil
                        THEN DecodeError("base64 decode of macaroon failed")
                      ELSE IF mac.err # nil
                        THEN DecodeError("unable to unmarshal macaroon")
                      ELSE IF preimage.err # nil
                        THEN DecodeError("hex decode of preimage failed")
                      ELSE [mac |-> mac.mac, preimage |-> preimage.preimage,
                            err |-> nil]

\* FromMacaroonField as it would be if a missing or malformed preimage caveat
\* were left to the Minter to reject: the decode succeeds with the zero
\* preimage.
FromMacaroonFieldLenient(authHeader) ==
    LET macBytes    == HexDecode(authHeader)
        mac         == UnmarshalBinary(macBytes.bytes)
        preimageHex == ExtractCaveat(mac.mac, CondPreimage)
        preimage    == MakePreimageFromStr(preimageHex.value)
    IN  IF macBytes.err # nil
          THEN DecodeError("hex decode of macaroon failed")
        ELSE IF mac.err # nil
          THEN DecodeError("unable to unmarshal macaroon")
        ELSE IF preimageHex.err # nil \/ preimage.err # nil
          THEN [mac |-> mac.mac, preimage |-> ZeroPreimage, err |-> nil]
        ELSE [mac |-> mac.mac, preimage |-> preimage.preimage, err |-> nil]

\* Layouts 2 and 3: the field holds only the macaroon, in hex, and the
\* preimage is a caveat of the macaroon.
FromMacaroonField(authHeader) ==
    LET macBytes    == HexDecode(authHeader)
        mac         == UnmarshalBinary(macBytes.bytes)
        preimageHex == ExtractCaveat(mac.mac, CondPreimage)
        preimage    == MakePreimageFromStr(preimageHex.value)
    IN  IF macBytes.err # nil
          THEN DecodeError("hex decode of macaroon failed")
        ELSE IF mac.err # nil
          THEN DecodeError("unable to unmarshal macaroon")
        ELSE IF preimageHex.err # nil
          THEN DecodeError("unable to extract preimage from macaroon")
        ELSE IF preimage.err # nil
          THEN DecodeError("hex decode of preimage failed")
        ELSE [mac |-> mac.mac, preimage |-> preimage.preimage, err |-> nil]

\* FromHeader as it would be if a field that fails to decode fell through
\* to the next one.
FromHeaderFallsThrough(header) ==
    LET a == FromAuthorization(Get(header, HeaderAuthorization))
        g == FromMacaroonField(Get(header, HeaderMacaroonMD))
        m == FromMacaroonField(Get(header, HeaderMacaroon))
    IN  IF Get(header, HeaderAuthorization) # << >> /\ a.err = nil THEN a
        ELSE IF Get(header, HeaderMacaroonMD) # << >> /\ g.err = nil THEN g
        ELSE IF Get(header, HeaderMacaroon) # << >> THEN m
        ELSE IF Get(header, HeaderMacaroonMD) # << >> THEN g
        ELSE IF Get(header, HeaderAuthorization) # << >> THEN a
        ELSE DecodeError("no auth header provided")

\* FromHeader: the switch over the three fields, the first with a value
\* that is not empty decides.
FromHeader(header) ==
    IF Get(header, HeaderAuthorization) # << >>
      THEN FromAuthorization(Get(header, HeaderAuthorization))
    ELSE IF Get(header, HeaderMacaroonMD) # << >>
      THEN FromMacaroonField(Get(header, HeaderMacaroonMD))
    ELSE IF Get(header, HeaderMacaroon) # << >>
      THEN FromMacaroonField(Get(header, HeaderMacaroon))
    ELSE DecodeError("no auth header provided")

\* authFormat, "LSAT %s:%s".
AuthFormat(macBase64, preimageHex) ==
    LsatPrefix \o macBase64 \o << ":" >> \o preimageHex

\* SetHeader as it would be with header.Add in the place of header.Set: the
\* value is appended to the values the field holds.
SetHeaderAdds(header, mac, preimage) ==
    LET macBytes == MarshalBinary(mac)
    IN  IF macBytes.err # nil
          THEN [header |-> header, err |-> macBytes.err]
          ELSE [header |->
                  [header EXCEPT ![HeaderAuthorization] =
                     @ \o << AuthFormat(B64Encode(macBytes.bytes),
                                        PreimageString(preimage)) >>],
                err |-> nil]

\* SetHeader: [header, err], the header after the call and the error.
SetHeader(header, mac, preimage) ==
    LET macBytes == MarshalBinary(mac)
    IN  IF macBytes.err # nil
          THEN [header |-> header, err |-> macBytes.err]
          ELSE [header |-> Set(header, HeaderAuthorization,
                               AuthFormat(B64Encode(macBytes.bytes),
                                          PreimageString(preimage))),
                err |-> nil]

\* ------------------------------------------------------------- minter ---

RECURSIVE SumBytes(_)
SumBytes(bs) == IF bs = << >> THEN 0 ELSE Head(bs) + SumBytes(Tail(bs))

\* The payment hash of a preimage (a one-byte digest in this model).
Hash(p) == SumBytes(p) % 256

\* The signature the minter seals an identifier and its caveats with.
Sign(id, caveats) == (99 + SumBytes(id) + SumBytes(FieldsOf(caveats))) % 256

\* The macaroon the minter seals: the identifier holds a token id and the
\* payment hash.
Seal(tokenID, paymentHash, caveats) ==
    [id |-> << tokenID, paymentHash >>, caveats |-> caveats,
     sig |-> Sign(<< tokenID, paymentHash >>, caveats)]

\* opWildcard, the service name that stands for any service.
opWildcard == << "*" >>

\* Minter.VerifyLSAT: nil iff the macaroon is sealed by the minter, the
\* preimage hashes to the payment hash of its identifier, and a services
\* caveat names the target service or the wildcard.
VerifyLSAT(params) ==
    LET mac      == params.Macaroon
        services == ExtractCaveat(mac, CondServices)
    IN  IF Len(mac.id) # 2 \/ mac.sig # Sign(mac.id, mac.caveats)
          THEN "invalid macaroon signature"
        ELSE IF Hash(params.Preimage) # mac.id[2]
          THEN "invalid preimage for payment hash"
        ELSE IF services.err # nil
                \/ services.value \notin { params.TargetService, opWildcard }
          THEN "macaroon not authorized for service"
        ELSE nil

\* ------------------------------------------------------ authenticator ---

\* context.Background(), the context both Minter calls are made with: it is
\* never done.  The context of a request is done once the request is
\* cancelled.
Background == [kind |-> "background", req |-> 0]

RequestContext(r) == [kind |-> "request", req |-> r]

\* The Minter call of Accept: the context and the VerificationParams.
VerifyCall(mac, preimage, serviceName) ==
    [ctx |-> Background, what |-> "VerifyLSAT",
     params |-> [Macaroon |-> mac, Preimage |-> preimage,
                 TargetService |-> serviceName]]

\* Accept as it would be if the error of VerifyLSAT were dropped.
AcceptDropsVerifyError(header, serviceName) ==
    LET d == FromHeader(header)
    IN  IF d.err # nil
          THEN [ok |-> FALSE, calls |-> << >>]
          ELSE [ok |-> TRUE,
                calls |-> << VerifyCall(d.mac, d.preimage, serviceName) >>]

\* LsatAuthenticator.Accept: [ok, calls], the boolean returned and the
\* VerifyLSAT calls made.
Accept(header, serviceName) ==
    LET d == FromHeader(header)
    IN  IF d.err # nil
          THEN [ok |-> FALSE, calls |-> << >>]
          ELSE LET call == VerifyCall(d.mac, d.preimage, serviceName)
               IN  IF VerifyLSAT(call.params) # nil
                     THEN [ok |-> FALSE, calls |-> << call >>]
                     ELSE [ok |-> TRUE, calls |-> << call >>]

\* The Minter call of FreshChallengeHeader: the context and the Service, at
\* lsat.BaseTier.
MintCall(serviceName) ==
    [ctx |-> Background, what |-> "MintLSAT",
     service |-> [Name |-> serviceName, Tier |-> 0]]

\* The challenge, "LSAT macaroon='%s' invoice='%s'".
ChallengeFormat(macBase64, paymentRequest) ==
    LsatPrefix \o << "m", "a", "c", "a", "r", "o", "o", "n", "=", "'" >>
      \o macBase64
      \o << "'", " ", "i", "n", "v", "o", "i", "c", "e", "=", "'" >>
      \o paymentRequest \o << "'" >>

\* FreshChallengeHeader as it would be if a failed MintLSAT were tried once
\* more before giving up.
FreshChallengeHeaderRetries(header, serviceName, minted) ==
    IF minted.err # nil
      THEN [ret |-> << >>, err |-> minted.err, header |-> header,
            calls |-> << MintCall(serviceName), MintCall(serviceName) >>]
      ELSE LET macBytes == MarshalBinary(minted.mac)
               str == ChallengeFormat(B64Encode(macBytes.bytes),
                                      minted.paymentRequest)
               set == Set(header, HeaderWWWAuthenticate, str)
           IN  [ret |-> << set >>, err |-> nil, header |-> set,
                calls |-> << MintCall(serviceName) >>]

\* FreshChallengeHeader as it would be if a macaroon that fails to serialize
\* aborted the call.
FreshChallengeHeaderFailsHard(header, serviceName, minted) ==
    IF minted.err # nil
      THEN [ret |-> << >>, err |-> minted.err, header |-> header,
            calls |-> << MintCall(serviceName) >>]
      ELSE LET macBytes == MarshalBinary(minted.mac)
               str == ChallengeFormat(B64Encode(macBytes.bytes),
                                      minted.paymentRequest)
               set == Set(header, HeaderWWWAuthenticate, str)
           IN  IF macBytes.err # nil
                 THEN [ret |-> << >>, err |-> macBytes.err, header |-> header,
                       calls |-> << MintCall(serviceName) >>]
                 ELSE [ret |-> << set >>, err |-> nil, header |-> set,
                       calls |-> << MintCall(serviceName) >>]

\* LsatAuthenticator.FreshChallengeHeader on a request whose header is
\* header, minted being what MintLSAT returns, [mac, paymentRequest, err]:
\* [ret, err, header, calls], the header returned (none when nil), the
\* error, the header of the request after the call and the MintLSAT calls
\* made.  The header returned is r.Header itself, which Set writes to.
FreshChallengeHeader(header, serviceName, minted) ==
    IF minted.err # nil
      THEN [ret |-> << >>, err |-> minted.err, header |-> header,
            calls |-> << MintCall(serviceName) >>]
      ELSE LET macBytes == MarshalBinary(minted.mac)
               str == ChallengeFormat(B64Encode(macBytes.bytes),
                                      minted.paymentRequest)
               set == Set(header, HeaderWWWAuthenticate, str)
           IN  [ret |-> << set >>, err |-> nil, header |-> set,
                calls |-> << MintCall(serviceName) >>]

\* ------------------------------------------------------------- inputs ---

Foo == << "f", "o", "o" >>

Bar == << "b", "a", "r" >>

ServiceNames == { Foo, Bar }

Preimage1 == [ i \in 1..PreimageSize |-> (37 * i) % 256 ]

Preimage2 == [ i \in 1..PreimageSize |-> 255 - i ]

Preimages == { Preimage1, Preimage2 }

\* A macaroon for service foo, paid by Preimage1, without a preimage caveat.
MacFoo == Seal(1, Hash(Preimage1), << Caveat(CondServices, Foo) >>)

\* The same with the preimage as a caveat, as layouts 2 and 3 expect it.
MacFooPre ==
    Seal(2, Hash(Preimage1),
         << Caveat(CondServices, Foo),
            Caveat(CondPreimage, PreimageString(Preimage1)) >>)

\* A wildcard macaroon whose preimage caveat is not a preimage.
MacBadPre ==
    Seal(3, Hash(Preimage1),
         << Caveat(CondServices, opWildcard),
            Caveat(CondPreimage, << "z", "z" >>) >>)

\* MacFoo with a signature the minter did not make.
MacForged == [MacFoo EXCEPT !.sig = (@ + 1) % 256]

\* A macaroon whose identifier does not fit a field: MarshalBinary fails.
MacOversized ==
    [id |-> [ i \in 1..(MaxFieldLen + 2) |-> 0 ], caveats |-> << >>, sig |-> 0]

BinaryOf(m) == MarshalBinary(m).bytes

\* hex.EncodeToString in upper case, as a client may send it.
UpperHexOf(bs) ==
    [ i \in 1..(2 * Len(bs)) |->
        IF i % 2 = 1 THEN UpperHexDigits[(bs[(i + 1) \div 2] \div 16) + 1]
                     ELSE UpperHexDigits[(bs[i \div 2] % 16) + 1] ]

MacFooBase64 == B64Encode(BinaryOf(MacFoo))

Preimage1Hex == PreimageString(Preimage1)

\* The values a client may send in the Authorization field.
AuthorizationValues ==
    { AuthFormat(MacFooBase64, Preimage1Hex),
      AuthFormat(MacFooBase64, PreimageString(Preimage2)),
      AuthFormat(B64Encode(BinaryOf(MacForged)), Preimage1Hex),
      AuthFormat(MacFooBase64, Preimage1Hex) \o << "0" >>,
      << "x" >> \o AuthFormat(MacFooBase64, Preimage1Hex),
      AuthFormat(MacFooBase64, SubSeq(Preimage1Hex, 1, PreimageHexLen - 1)),
      AuthFormat(MacFooBase64, UpperHexOf(Preimage1)),
      LsatPrefix \o MacFooBase64 \o Preimage1Hex,
      AuthFormat(<< "!", "!" >>, Preimage1Hex),
      AuthFormat(B64Encode(<< 1, 2, 3 >>), Preimage1Hex) }

\* The values a client may send in the Grpc-Metadata-Macaroon field.
MacaroonMDValues == { << "z", "z" >>, HexEncode(BinaryOf(MacFooPre)) }

\* The values a client may send in the Macaroon field.
MacaroonValues ==
    { HexEncode(BinaryOf(MacFooPre)), HexEncode(BinaryOf(MacFoo)),
      HexEncode(BinaryOf(MacBadPre)), HexEncode(<< 1, 2, 3 >>) }

\* A field of a request: absent, present with an empty value, or one value.
FieldOf(values) == { << >>, << << >> >> } \cup { << v >> : v \in values }

EmptyHeader == [ k \in HeaderFields |-> << >> ]

\* The headers of an inbound request.
InitialHeaders ==
    { [EmptyHeader EXCEPT ![HeaderAuthorization] = a, ![HeaderMacaroonMD] = g,
                          ![HeaderMacaroon] = m] :
        a \in FieldOf(AuthorizationValues),
        g \in FieldOf(MacaroonMDValues) \ { << << >> >> },
        m \in FieldOf(MacaroonValues) }

\* The macaroons handed to SetHeader.
SetMacaroons == { MacFoo, MacFooPre, MacOversized }

Invoice == << "l", "n", "b", "c", "1" >>

NoMint == [mac |-> NilMacaroon, paymentRequest |-> << >>, err |-> "none"]

\* What Minter.MintLSAT may return for a service: an error, a macaroon for
\* the service with its invoice, or a macaroon that does not serialize.
MintResults(serviceName) ==
    { [mac |-> NilMacaroon, paymentRequest |-> << >>, err |-> "mint failed"],
      [mac |-> Seal(4, Hash(Preimage2), << Caveat(CondServices, serviceName) >>),
       paymentRequest |-> Invoice, err |-> nil],
      [mac |-> MacOversized, paymentRequest |-> Invoice, err |-> nil] }

\* ---------------------------------------------------------- the calls ---

\* The calls that write the header of one request (SetHeader,
\* FreshChallengeHeader) the model follows.
MaxWrites == 2

VARIABLES
    header,   \* the header of the request
    writes,   \* the calls that wrote it so far
    op,       \* the last call made
    args,     \* its arguments
    before,   \* the header of the request when it was made
    ret,      \* what it returned
    calls,    \* the Minter calls it made
    minted    \* what MintLSAT returned to it

\* The calls of one request, made one after the other.
callVars == << header, writes, op, args, before, ret, calls, minted >>

VARIABLES
    reqHeader,   \* r.Header of each request, the map the goroutines share
    cancelled,   \* the requests whose context is cancelled
    pc,          \* where each goroutine is in its call
    task,        \* what each goroutine runs: [op, req, serviceName]
    frame,       \* its locals: [call, minted]
    result,      \* what its call returned: [ok, err, hdr]
    crashed      \* the runtime stopped the process on a concurrent map access

\* The calls of concurrent goroutines.
goVars == << reqHeader, cancelled, pc, task, frame, result, crashed >>

vars == << callVars, goVars >>

Requests == { 1, 2 }

Procs == { 1, 2 }

NoCall == [ctx |-> Background, what |-> "none"]

NoTask == [op |-> "none", req |-> 0, serviceName |-> << >>]

NoFrame == [call |-> NoCall, minted |-> NoMint]

NoResult == [ok |-> FALSE, err |-> nil, hdr |-> << >>]

\* The goroutines before any call.
GoIdle ==
    /\ cancelled = [ r \in Requests |-> FALSE ]
    /\ pc = [ p \in Procs |-> "idle" ]
    /\ task = [ p \in Procs |-> NoTask ]
    /\ frame = [ p \in Procs |-> NoFrame ]
    /\ result = [ p \in Procs |-> NoResult ]
    /\ crashed = FALSE

NoArgs == [serviceName |-> << >>, mac |-> NilMacaroon, preimage |-> ZeroPreimage]

NoRet == [ok |-> FALSE, err |-> nil, mac |-> NilMacaroon,
          preimage |-> ZeroPreimage, hdr |-> << >>]

Init ==
    /\ header \in InitialHeaders
    /\ writes = 0
    /\ op = "none"
    /\ args = NoArgs
    /\ before = header
    /\ ret = NoRet
    /\ calls = << >>
    /\ minted = NoMint
    /\ reqHeader = [ r \in Requests |-> EmptyHeader ]
    /\ GoIdle

CallFromHeader ==
    LET d == FromHeader(header)
    IN  /\ op' = "FromHeader"
        /\ args' = NoArgs
        /\ before' = header
        /\ ret' = [NoRet EXCEPT !.err = d.err, !.mac = d.mac,
                                !.preimage = d.preimage]
        /\ calls' = << >>
        /\ minted' = NoMint
        /\ UNCHANGED << header, writes, goVars >>

CallSetHeader ==
    /\ writes < MaxWrites
    /\ \E mac \in SetMacaroons, preimage \in Preimages :
        LET r == SetHeader(header, mac, preimage)
        IN  /\ op' = "SetHeader"
            /\ args' = [NoArgs EXCEPT !.mac = mac, !.preimage = preimage]
            /\ before' = header
            /\ header' = r.header
            /\ writes' = writes + 1
            /\ ret' = [NoRet EXCEPT !.err = r.err]
            /\ calls' = << >>
            /\ minted' = NoMint
            /\ UNCHANGED goVars

CallAccept ==
    \E serviceName \in ServiceNames :
        LET r == Accept(header, serviceName)
        IN  /\ op' = "Accept"
            /\ args' = [NoArgs EXCEPT !.serviceName = serviceName]
            /\ before' = header
            /\ ret' = [NoRet EXCEPT !.ok = r.ok]
            /\ calls' = r.calls
            /\ minted' = NoMint
            /\ UNCHANGED << header, writes, goVars >>

CallFreshChallengeHeader ==
    /\ writes < MaxWrites
    /\ \E serviceName \in ServiceNames :
        \E m \in MintResults(serviceName) :
            LET r == FreshChallengeHeader(header, serviceName, m)
            IN  /\ op' = "FreshChallengeHeader"
                /\ args' = [NoArgs EXCEPT !.serviceName = serviceName]
                /\ before' = header
                /\ header' = r.header
                /\ writes' = writes + 1
                /\ ret' = [NoRet EXCEPT !.err = r.err, !.hdr = r.ret]
                /\ calls' = r.calls
                /\ minted' = m
                /\ UNCHANGED goVars

Next ==
    \/ CallFromHeader
    \/ CallSetHeader
    \/ CallAccept
    \/ CallFreshChallengeHeader

Spec == Init /\ [][Next]_vars

\* --------------------------------------------------- the goroutines ---

\* The headers of the two requests the goroutines serve.
GoHeaders ==
    [ r \in Requests |->
        IF r = 1
          THEN [EmptyHeader EXCEPT ![HeaderAuthorization] =
                  << AuthFormat(MacFooBase64, Preimage1Hex) >>]
          ELSE [EmptyHeader EXCEPT ![HeaderMacaroon] =
                  << HexEncode(BinaryOf(MacFooPre)) >>] ]

GoInit ==
    /\ header = EmptyHeader
    /\ writes = 0
    /\ op = "none"
    /\ args = NoArgs
    /\ before = header
    /\ ret = NoRet
    /\ calls = << >>
    /\ minted = NoMint
    /\ reqHeader = GoHeaders
    /\ GoIdle

\* A goroutine enters Accept with the header of a request: FromHeader starts
\* to read the map.
AcceptEnter(p) ==
    /\ ~crashed
    /\ pc[p] = "idle"
    /\ \E r \in Requests, serviceName \in ServiceNames :
         task' = [task EXCEPT ![p] = [op |-> "Accept", req |-> r,
                                      serviceName |-> serviceName]]
    /\ pc' = [pc EXCEPT ![p] = "reading"]
    /\ UNCHANGED << reqHeader, cancelled, frame, result, crashed, callVars >>

\* FromHeader returns: Accept denies on an error, and calls VerifyLSAT
\* otherwise.
AcceptDecoded(p) ==
    /\ ~crashed
    /\ pc[p] = "reading"
    /\ LET d == FromHeader(reqHeader[task[p].req])
       IN  IF d.err # nil
             THEN /\ result' = [result EXCEPT ![p].ok = FALSE]
                  /\ pc' = [pc EXCEPT ![p] = "done"]
                  /\ UNCHANGED frame
             ELSE /\ frame' = [frame EXCEPT ![p].call =
                                 VerifyCall(d.mac, d.preimage,
                                            task[p].serviceName)]
                  /\ pc' = [pc EXCEPT ![p] = "verifying"]
                  /\ UNCHANGED result
    /\ UNCHANGED << reqHeader, cancelled, task, crashed, callVars >>

\* VerifyLSAT returns and Accept with it.
AcceptVerified(p) ==
    /\ ~crashed
    /\ pc[p] = "verifying"
    /\ result' = [result EXCEPT
                    ![p].ok = (VerifyLSAT(frame[p].call.params) = nil)]
    /\ frame' = [frame EXCEPT ![p].call = NoCall]
    /\ pc' = [pc EXCEPT ![p] = "done"]
    /\ UNCHANGED << reqHeader, cancelled, task, crashed, callVars >>

\* A goroutine enters FreshChallengeHeader with a request and calls MintLSAT.
FreshEnter(p) ==
    /\ ~crashed
    /\ pc[p] = "idle"
    /\ \E r \in Requests, serviceName \in ServiceNames :
         /\ task' = [task EXCEPT ![p] = [op |-> "FreshChallengeHeader",
                                         req |-> r,
                                         serviceName |-> serviceName]]
         /\ frame' = [frame EXCEPT ![p].call = MintCall(serviceName)]
    /\ pc' = [pc EXCEPT ![p] = "minting"]
    /\ UNCHANGED << reqHeader, cancelled, result, crashed, callVars >>

\* MintLSAT returns: its error ends the call; otherwise header.Set starts to
\* write r.Header.
FreshMinted(p) ==
    /\ ~crashed
    /\ pc[p] = "minting"
    /\ \E m \in MintResults(task[p].serviceName) :
         IF m.err # nil
           THEN /\ result' = [result EXCEPT ![p].err = m.err]
                /\ frame' = [frame EXCEPT ![p].call = NoCall]
                /\ pc' = [pc EXCEPT ![p] = "done"]
           ELSE /\ frame' = [frame EXCEPT ![p] = [call |-> NoCall, minted |-> m]]
                /\ pc' = [pc EXCEPT ![p] = "writing"]
                /\ UNCHANGED result
    /\ UNCHANGED << reqHeader, cancelled, task, crashed, callVars >>

\* header.Set has written r.Header and FreshChallengeHeader returns it.
FreshWritten(p) ==
    /\ ~crashed
    /\ pc[p] = "writing"
    /\ LET r == FreshChallengeHeader(reqHeader[task[p].req],
                                     task[p].serviceName, frame[p].minted)
       IN  /\ reqHeader' = [reqHeader EXCEPT ![task[p].req] = r.header]
           /\ result' = [result EXCEPT ![p].hdr = r.ret, ![p].err = r.err]
    /\ pc' = [pc EXCEPT ![p] = "done"]
    /\ UNCHANGED << cancelled, task, frame, crashed, callVars >>

\* The client of a request goes away: the context of the request is done.
CancelRequest(r) ==
    /\ ~crashed
    /\ ~cancelled[r]
    /\ cancelled' = [cancelled EXCEPT ![r] = TRUE]
    /\ UNCHANGED << reqHeader, pc, task, frame, result, crashed, callVars >>

\* The goroutine p is reading, or writing, the header map of a request.
Reads(p, r) == pc[p] = "reading" /\ task[p].req = r

Writes(p, r) == pc[p] = "writing" /\ task[p].req = r

\* Two goroutines are in the same map at once and one of them writes it: a
\* data race.
Races(p, q) ==
    /\ p # q
    /\ \E r \in Requests : Writes(p, r) /\ (Reads(q, r) \/ Writes(q, r))

\* A data race on a map has no defined outcome: the accesses may go through
\* (the steps above), or the runtime detects them and stops the process
\* ("fatal error: concurrent map writes").
RuntimeFatal ==
    /\ ~crashed
    /\ \E p, q \in Procs : Races(p, q)
    /\ crashed' = TRUE
    /\ UNCHANGED << reqHeader, cancelled, pc, task, frame, result, callVars >>

GoNext ==
    \/ \E p \in Procs : AcceptEnter(p)
    \/ \E p \in Procs : AcceptDecoded(p)
    \/ \E p \in Procs : AcceptVerified(p)
    \/ \E p \in Procs : FreshEnter(p)
    \/ \E p \in Procs : FreshMinted(p)
    \/ \E p \in Procs : FreshWritten(p)
    \/ \E r \in Requests : CancelRequest(r)
    \/ RuntimeFatal

GoSpec == GoInit /\ [][GoNext]_vars

\* --------------------------------------------------------- properties ---

\* The layout-1 value as the specification words it: "LSAT ", the macaroon
\* segment, ":", and exactly PreimageHexLen characters of [a-f0-9], with
\* nothing before and nothing after.
ExactLayout1(s) ==
    /\ Len(s) >= 6 + PreimageHexLen
    /\ SubSeq(s, 1, 5) = LsatPrefix
    /\ s[Len(s) - PreimageHexLen] = ":"
    /\ \A k \in 1..PreimageHexLen : s[Len(s) - PreimageHexLen + k] \in LowerHex

AuthorizationOf(h) == Get(h, HeaderAuthorization)

\* C1: Accept returns true if and only if FromHeader decodes a pair without
\* error and VerifyLSAT, called with exactly that macaroon, that preimage and
\* the given service name, returns nil; it returns false in every other
\* case (a boolean is all it returns).
C1_AcceptIffDecodedAndVerified ==
    op = "Accept" =>
        LET d == FromHeader(before)
            p == [Macaroon |-> d.mac, Preimage |-> d.preimage,
                  TargetService |-> args.serviceName]
        IN  /\ ret.ok = (d.err = nil /\ VerifyLSAT(p) = nil)
            /\ d.err = nil => Len(calls) = 1 /\ calls[1].params = p
            /\ d.err # nil => calls = << >>

C1_Witness ==
    /\ op = "Accept"
    /\ ret.ok
    /\ AuthorizationOf(before) # << >>

\* C2: whenever the Authorization field holds a value that is not the
\* layout-1 pattern, FromHeader fails with the format error, whatever the
\* other two fields hold, and Accept is false without a VerifyLSAT call.
C2_MalformedAuthorizationFails ==
    (AuthorizationOf(before) # << >> /\ ~ExactLayout1(AuthorizationOf(before)))
        => /\ op = "FromHeader" => ret.err = "invalid auth header format"
           /\ op = "Accept" => ~ret.ok /\ calls = << >>

\* C3: a layout-1 decode succeeds only when the Authorization value is
\* exactly "LSAT <macaroon-base64>:<preimage-hex>", the preimage segment
\* being exactly 64 characters of [a-f0-9], nothing before "LSAT " and
\* nothing after the 64th character.
C3_OnlyExactLayoutDecodes ==
    (op = "FromHeader" /\ AuthorizationOf(before) # << >> /\ ret.err = nil)
        => ExactLayout1(AuthorizationOf(before))

\* C4: after SetHeader(h, m, p) succeeds, FromHeader(h) returns (m, p)
\* without error, whatever h held before the call.
C4_RoundTrip ==
    (op = "SetHeader" /\ ret.err = nil) =>
        LET d == FromHeader(header)
        IN  /\ d.err = nil
            /\ d.mac = args.mac
            /\ d.preimage = args.preimage

C4_Witness ==
    /\ op = "SetHeader"
    /\ ret.err = nil
    /\ AuthorizationOf(before) # << >>
    /\ AuthorizationOf(before) # AuthorizationOf(header)
    /\ Get(before, HeaderMacaroon) # << >>

\* C6: when MintLSAT returns an error, FreshChallengeHeader returns that
\* error and no header, has called MintLSAT exactly once, and has not set
\* WWW-Authenticate on the header of the request.
C6_MintErrorPropagated ==
    (op = "FreshChallengeHeader" /\ minted.err # nil) =>
        /\ ret.err = minted.err
        /\ ret.hdr = << >>
        /\ Len(calls) = 1
        /\ calls[1].service.Name = args.serviceName
        /\ header = before

C6_Witness ==
    /\ op = "FreshChallengeHeader"
    /\ minted.err # nil
    /\ ret.err = "mint failed"

\* The field FromHeader decides on: the first of Authorization,
\* Grpc-Metadata-Macaroon, Macaroon whose value is not empty, "" when none.
Chosen(h) ==
    IF Get(h, HeaderAuthorization) # << >> THEN HeaderAuthorization
    ELSE IF Get(h, HeaderMacaroonMD) # << >> THEN HeaderMacaroonMD
    ELSE IF Get(h, HeaderMacaroon) # << >> THEN HeaderMacaroon
    ELSE ""

\* The header that holds only the field k of h.
Only(h, k) == [ f \in HeaderFields |-> IF f = k THEN h[f] ELSE << >> ]

\* The macaroon a hex field carries, when it carries one.
CarriedMacaroon(v) == UnmarshalBinary(HexDecode(v).bytes)

\* A hex field whose macaroon decodes but has no preimage caveat, or one
\* whose value is not 64 characters of hex.
LacksPreimage(v) ==
    /\ HexDecode(v).err = nil
    /\ CarriedMacaroon(v).err = nil
    /\ LET c == ExtractCaveat(CarriedMacaroon(v).mac, CondPreimage)
       IN  \/ c.err # nil
           \/ Len(c.value) # PreimageHexLen
           \/ \E i \in 1..Len(c.value) : c.value[i] \notin AnyHex

\* C8: when the request carries only a hex macaroon (layout 2 or 3) that has
\* no preimage caveat, or one that is not 64 characters of hex, FromHeader
\* returns an error and Accept returns false without calling VerifyLSAT;
\* VerifyLSAT is called at most once per Accept and only after a successful
\* decode.
C8_DecodeFailureBeforeVerify ==
    /\ op = "Accept" =>
          /\ Len(calls) <= 1
          /\ calls # << >> => FromHeader(before).err = nil
    /\ ( /\ Chosen(before) \in { HeaderMacaroonMD, HeaderMacaroon }
         /\ LacksPreimage(Get(before, Chosen(before))) )
        => /\ op = "FromHeader" => ret.err # nil
           /\ op = "Accept" => ~ret.ok /\ calls = << >>

C8_Witness ==
    /\ op = "Accept"
    /\ Chosen(before) = HeaderMacaroon
    /\ LacksPreimage(Get(before, HeaderMacaroon))
    /\ ExtractCaveat(CarriedMacaroon(Get(before, HeaderMacaroon)).mac,
                     CondPreimage).err # nil

\* C9: FromHeader decodes exactly one field, the first with a value that is
\* not empty in the order Authorization, Grpc-Metadata-Macaroon, Macaroon,
\* and a failure on it is not retried on a later field; when none has such a
\* value it fails with "no auth header provided" and Accept returns false.
C9_FirstFieldDecides ==
    /\ op = "FromHeader" =>
          LET d == FromHeader(Only(before, Chosen(before)))
          IN  /\ ret.err = d.err
              /\ ret.mac = d.mac
              /\ ret.preimage = d.preimage
              /\ Chosen(before) = "" => ret.err = "no auth header provided"
    /\ (op = "Accept" /\ Chosen(before) = "") => ~ret.ok /\ calls = << >>

C9_Witness ==
    /\ op = "FromHeader"
    /\ Chosen(before) = HeaderMacaroonMD
    /\ ret.err = "hex decode of macaroon failed"
    /\ FromHeader(Only(before, HeaderMacaroon)).err = nil

\* C10: when MintLSAT succeeds, FreshChallengeHeader returns a nil error and
\* the header, whose WWW-Authenticate value is
\* LSAT macaroon='<base64 of the binary form>' invoice='<payment request>';
\* when the macaroon does not serialize the call still returns the header,
\* with an empty macaroon field and the invoice.
C10_ChallengeHeader ==
    (op = "FreshChallengeHeader" /\ minted.err = nil) =>
        LET bin == MarshalBinary(minted.mac)
            b64 == IF bin.err = nil THEN B64Encode(bin.bytes) ELSE << >>
        IN  /\ ret.err = nil
            /\ ret.hdr = << header >>
            /\ header[HeaderWWWAuthenticate] =
                 << << "L", "S", "A", "T", " ", "m", "a", "c", "a", "r", "o",
                       "o", "n", "=", "'" >> \o b64
                    \o << "'", " ", "i", "n", "v", "o", "i", "c", "e", "=",
                          "'" >> \o minted.paymentRequest \o << "'" >> >>
            /\ \A k \in HeaderFields \ { HeaderWWWAuthenticate } :
                 header[k] = before[k]

C10_Witness ==
    /\ op = "FreshChallengeHeader"
    /\ minted.err = nil
    /\ MarshalBinary(minted.mac).err # nil
    /\ ret.hdr # << >>

\* A context is done once its request is cancelled; the background context
\* never is.
ContextDone(ctx) == ctx.kind = "request" /\ cancelled[ctx.req]

\* A goroutine waits for the Minter.
InMinter(p) == pc[p] \in { "verifying", "minting" }

\* C5: the Minter calls of Accept and FreshChallengeHeader run under the
\* cancellation of the context of the request: once the request is cancelled,
\* the context of the call in flight is done, so that the Minter aborts it.
C5_CancellationReachesMinter ==
    \A p \in Procs :
        (InMinter(p) /\ cancelled[task[p].req]) => ContextDone(frame[p].call.ctx)

\* C7: Accept and FreshChallengeHeader touch no shared mutable state: in no
\* interleaving does a call write an object that another call reads or
\* writes, and no call is kept from returning its result.
C7_NoSharedMutableState ==
    /\ ~crashed
    /\ \A p, q \in Procs : ~Races(p, q)

====
